---- MODULE Spec2Model ----
(***************************************************************************)
(* Request fulfilment and caching layer of the speech backend              *)
(* (backend/app.py, backend/tts.py, backend/stt.py).                       *)
(*                                                                         *)
(* Modelling conventions                                                   *)
(*  - time.time() is the variable clock (seconds); it moves forward        *)
(*    through ClockValues.                                                 *)
(*  - hashlib.md5 is assumed collision free: a digest is represented by    *)
(*    the index of its preimage in a table of every string the model       *)
(*    hashes, so two digests are equal exactly when the preimages are.     *)
(*  - a byte string is a sequence of blocks <<tag, n>>, a block standing   *)
(*    for n bytes of content tag; len() is the sum of the n and            *)
(*    b"".join is concatenation.                                           *)
(*  - a memory cache (a dict) is its entries in insertion order (Python    *)
(*    dicts iterate in insertion order, which min() and sorted() observe), *)
(*    preceded by anon entries under keys no request of the model names:   *)
(*    they were inserted first, at time 0, and are kept as a count.        *)
(*  - each "with memory_cache_lock:" block is one atomic step.             *)
(*  - the provider returns the same audio for the same (text, voice,       *)
(*    speed) whenever it returns a complete answer, except under SpecRace  *)
(*    where two complete answers for one text differ.                      *)
(*  - one client address uses /api/gemini; an exchange of its history is   *)
(*    named by the request that appended it, earlier exchanges by          *)
(*    negative numbers.                                                    *)
(***************************************************************************)
EXTENDS Integers, Sequences, FiniteSets, TLC

VARIABLES
  clock,             \* time.time()
  request_counter,   \* app.request_counter
  active_requests,   \* app.active_requests (the ids that have a record)
  response_cache,    \* app.response_cache
  memory_cache,      \* tts.memory_cache
  files,             \* the files of tts_cache/
  stt_memory_cache,  \* stt.memory_cache
  stt_files,         \* the files of stt_cache/
  queue,             \* work queue of tts.executor
  hung,              \* workers held by provider calls that never return
  janitor_wake,      \* when clean_cache_periodically's sleep ends
  conversation_histories,  \* app.conversation_histories[request.remote_addr]
  req                \* per request: handler and task position, locals, outputs

vars == <<clock, request_counter, active_requests, response_cache, memory_cache,
          files, stt_memory_cache, stt_files, queue, hung, janitor_wake,
          conversation_histories, req>>

env == <<clock, hung, janitor_wake>>
app == <<request_counter, active_requests, response_cache>>
stt == <<stt_memory_cache, stt_files>>

\* ------------------------------------------------------------------ bounds
MaxRequests == 3        \* requests accepted in one behaviour
MaxActive == 2          \* requests in progress at the same time

ClockValues == {0, 2000, 5000, 90000}

\* --------------------------------------------------------- program constants
max_workers == 16
HangBursts == {max_workers}
MEMORY_CACHE_SIZE == 100
STT_MEMORY_CACHE_SIZE == 200
MEMORY_CACHE_EXPIRY == 3600
CACHE_EXPIRY == 3600
FILE_RETENTION == 86400
JANITOR_SLEEP == 3600
MIN_AUDIO_BYTES == 100
PREFIX_CHARS == 100

Min(a, b) == IF a < b THEN a ELSE b
Max(a, b) == IF a > b THEN a ELSE b

\* ------------------------------------------------------------- byte strings
RECURSIVE ByteLen(_)
ByteLen(bs) == IF bs = <<>> THEN 0 ELSE Head(bs)[2] + ByteLen(Tail(bs))

RECURSIVE Join(_)
Join(cs) == IF cs = <<>> THEN <<>> ELSE Head(cs) \o Join(Tail(cs))

\* ------------------------------------------------------------------- inputs
Pad == [i \in 1..PREFIX_CHARS |-> "a"]
TextX == Pad \o <<"x">>
TextY == Pad \o <<"y">>

\* valid synthesis requests; speed is in hundredths (100 is 1.0)
TTSInputs ==
  << [text |-> TextX, voice |-> "default", speed |-> 100],
     [text |-> TextY, voice |-> "default", speed |-> 100] >>
TTSIn == 1..Len(TTSInputs)

\* what the provider streams for input i: the complete audio, another
\* complete rendering of the same text (the provider is a remote speech
\* model, nothing makes two of its answers equal), or a truncated answer
\* shorter than MIN_AUDIO_BYTES
ProviderChunks(i, variant) ==
  IF variant = "full"
  THEN << << <<i, 60>> >>, << <<i + 10, 60>> >> >>
  ELSE IF variant = "alt"
  THEN << << <<i + 30, 50>> >>, << <<i + 40, 60>> >> >>
  ELSE << << <<i + 20, 40>> >> >>
Variants == {"full", "short"}

\* ------------------------------------------------------------ key derivation
MemKeyString(i) ==
  LET t == TTSInputs[i].text
  IN <<SubSeq(t, 1, Min(Len(t), PREFIX_CHARS)), TTSInputs[i].voice, TTSInputs[i].speed>>
FullKeyString(i) == <<TTSInputs[i].text, TTSInputs[i].voice, TTSInputs[i].speed>>

TTSPreimages ==
  [n \in 1..(2 * Len(TTSInputs)) |->
     IF n <= Len(TTSInputs) THEN MemKeyString(n) ELSE FullKeyString(n - Len(TTSInputs))]

md5(table, s) ==
  CHOOSE n \in 1..Len(table) : table[n] = s /\ \A m \in 1..(n - 1) : table[m] # s

TTSMemKeyTable == [i \in TTSIn |-> md5(TTSPreimages, MemKeyString(i))]
TTSFullKeyTable == [i \in TTSIn |-> md5(TTSPreimages, FullKeyString(i))]
memory_cache_key(i) == TTSMemKeyTable[i]
full_cache_key(i) == TTSFullKeyTable[i]

\* ------------------------------------------------- stt.py: audio and keys
SAMPLING_THRESHOLD == 10000
SAMPLE_COUNT == 20
SAMPLE_BYTES == 20

\* two recordings longer than the sampling threshold that differ in one byte
\* outside every sampled window, a short one, one below every size test and
\* an empty upload
AudioA == [n \in 1..10020 |-> 0]
AudioB == [AudioA EXCEPT ![25] = 1]
AudioC == [n \in 1..1200 |-> 2]
AudioD == [n \in 1..400 |-> 3]
AudioE == <<>>
AudioInputs == <<AudioA, AudioB, AudioC, AudioD, AudioE>>
STTIn == 1..Len(AudioInputs)

\* for i in range(0, len(audio_data), chunk_size):
\*     if i + 20 < len(audio_data): samples.append(audio_data[i:i+20])
RECURSIVE Samples(_, _, _)
Samples(a, i, chunk_size) ==
  IF i >= Len(a) THEN <<>>
  ELSE (IF i + SAMPLE_BYTES < Len(a) THEN SubSeq(a, i + 1, i + SAMPLE_BYTES) ELSE <<>>)
         \o Samples(a, i + chunk_size, chunk_size)

\* the string get_audio_fingerprint hashes
FingerprintString(a) ==
  IF Len(a) > SAMPLING_THRESHOLD
  THEN Samples(a, 0, Max(1, Len(a) \div SAMPLE_COUNT))
  ELSE a

STTPreimages ==
  [n \in 1..(2 * Len(AudioInputs)) |->
     IF n <= Len(AudioInputs) THEN AudioInputs[n]
     ELSE FingerprintString(AudioInputs[n - Len(AudioInputs)])]

FingerprintTable == [i \in STTIn |-> md5(STTPreimages, FingerprintString(AudioInputs[i]))]
AudioHashTable == [i \in STTIn |-> md5(STTPreimages, AudioInputs[i])]
get_audio_fingerprint(i) == FingerprintTable[i]
audio_hash(i) == AudioHashTable[i]

\* what Deepgram answers for each recording: transcript and confidence (in
\* hundredths)
ProviderAnswer ==
  << [transcript |-> <<"o", "n", "e", " ", "a">>, confidence |-> 90],
     [transcript |-> <<"t", "w", "o", "\r", "b">>, confidence |-> 90],
     [transcript |-> <<"u", "h">>, confidence |-> 30],
     [transcript |-> <<>>, confidence |-> 0],
     [transcript |-> <<>>, confidence |-> 0] >>

Unclear == <<"unclear">>
Blank(c) == c \in {" ", "\r", "\n", "\t"}

\* len(transcript.split())
WordCount(t) ==
  Cardinality({n \in 1..Len(t) : ~Blank(t[n]) /\ (n = 1 \/ Blank(t[n - 1]))})

\* lines 151-157: the transcript kept from an answer
Extract(ans) ==
  IF ans.confidence < 50 /\ WordCount(ans.transcript) < 2 THEN Unclear ELSE ans.transcript

\* open(cache_path, "r").read(): text mode turns "\r\n" and "\r" into "\n"
ReadText(t) ==
  LET F[n \in 0..Len(t)] ==
        IF n = 0 THEN <<>>
        ELSE IF t[n] = "\n" /\ n > 1 /\ t[n - 1] = "\r" THEN F[n - 1]
        ELSE IF t[n] = "\r" THEN Append(F[n - 1], "\n")
        ELSE Append(F[n - 1], t[n])
  IN F[Len(t)]

\* ------------------------------------------------------------ memory cache
\* a cache is [anon |-> count of unnamed entries, entries |-> the others]
Size(mc) == mc.anon + Len(mc.entries)
Has(mc, k) == \E n \in 1..Len(mc.entries) : mc.entries[n].key = k
Get(mc, k) == mc.entries[CHOOSE n \in 1..Len(mc.entries) : mc.entries[n].key = k]

\* memory_cache[key] = entry: an existing key keeps its place in the dict
Put(mc, e) ==
  [mc EXCEPT !.entries =
     IF Has(mc, e.key)
     THEN [n \in 1..Len(@) |-> IF @[n].key = e.key THEN e ELSE @[n]]
     ELSE Append(@, e)]

RECURSIVE Keep(_, _, _)
Keep(es, drop, n) ==
  IF n > Len(es) THEN <<>>
  ELSE (IF n \in drop THEN <<>> ELSE <<es[n]>>) \o Keep(es, drop, n + 1)

\* position of entry n in sorted(keys, key=timestamp), a stable sort
Rank(es, n) ==
  Cardinality({m \in 1..Len(es) :
     \/ es[m].timestamp < es[n].timestamp
     \/ es[m].timestamp = es[n].timestamp /\ m < n})

\* the cache without the first m keys of sorted(keys, key=timestamp); the
\* unnamed entries (timestamp 0, inserted first) sort first
DropOldest(mc, m) ==
  LET a == Min(m, mc.anon)
  IN [anon |-> mc.anon - a,
      entries |-> Keep(mc.entries,
                       {n \in 1..Len(mc.entries) : Rank(mc.entries, n) < m - a}, 1)]

\* oldest_key = min(keys, key=timestamp); del memory_cache[oldest_key]
EvictOldest(mc) == DropOldest(mc, 1)

\* for old_key in keys_by_age[:max(1, len(keys_by_age)//10)]: del ...
EvictTenth(mc) == DropOldest(mc, Max(1, Size(mc) \div 10))

\* ------------------------------------------------------------------- state
Requests == 1..MaxRequests
NoBytes == <<>>

IdleReq ==
  [kind |-> "none", inp |-> 0, hpc |-> "idle", pc |-> "none",
   data |-> NoBytes, chunks |-> <<>>, delivered |-> <<>>, pos |-> 0,
   variant |-> "none", called |-> FALSE, ret |-> NoBytes,
   status |-> 0, body |-> NoBytes, error |-> "", failure |-> "", start_time |-> 0,
   doneSeq |-> 0, doneClock |-> 0, id |-> 0]

\* the client's conversation so far: one exchange short of the limit
MAX_HISTORY_LENGTH == 10
EarlierExchanges == [n \in 1..(MAX_HISTORY_LENGTH - 1) |-> n - MAX_HISTORY_LENGTH]

\* earlier requests, for other inputs, have filled the memory caches to
\* their maximum; their files are left out, no request of the model names
\* them

Init ==
  /\ clock = 0
  /\ request_counter = 0
  /\ active_requests = {}
  /\ response_cache = << >>
  /\ memory_cache = [anon |-> MEMORY_CACHE_SIZE, entries |-> <<>>]
  /\ files = << >>
  /\ stt_memory_cache = [anon |-> STT_MEMORY_CACHE_SIZE, entries |-> <<>>]
  /\ stt_files = << >>
  /\ queue = <<>>
  /\ hung = 0
  /\ janitor_wake = JANITOR_SLEEP
  /\ conversation_histories = EarlierExchanges
  /\ req = [r \in Requests |-> IdleReq]

Set(r, rec) == req' = [req EXCEPT ![r] = rec]

\* positions of text_to_speech / save_to_cache that occupy an executor worker
TaskPCs == {"mem_check", "disk_check", "disk_read", "promote", "provider",
            "file_open", "file_write", "mem_put"}
SavePCs == {"save_run", "save_write", "save_mem"}
OnWorker(r) ==
  \/ req[r].kind \in {"tts", "stt"} /\ req[r].pc \in TaskPCs
  \/ req[r].pc \in SavePCs
Busy == hung + Cardinality({r \in Requests : OnWorker(r)})

Finished(r) ==
  /\ req[r].hpc = "done"
  /\ req[r].pc \in {"none", "done", "raised", "stream_failed", "stream_cancelled"}
InProgress == {r \in Requests : req[r].hpc # "idle" /\ ~Finished(r)}

\* ------------------------------------------------- app.py: convert_text
\* cache_key = f"tts:{text[:100]}:{voice}:{speed}": the same string as the
\* memory-cache key up to the fixed prefix, so it is identified the same way
cache_key(i) == memory_cache_key(i)

RespFresh(e) == clock - e.timestamp < CACHE_EXPIRY

\* the slots of req are taken in the order of the calls of get_request_id
NextSlot == 1 + Cardinality({q \in Requests : req[q].hpc # "idle"})

\* a get_request_id without request_lock: the value returned is the one
\* read before a concurrent call stored its increment
GetRequestIdUnlocked(r) ==
  /\ r = NextSlot /\ r \in Requests
  /\ Cardinality(InProgress) < MaxActive
  /\ LET seen == IF \E q \in Requests : req[q].hpc = "issued"
                 THEN request_counter - 1 ELSE request_counter
     IN /\ request_counter' = seen + 1
        /\ Set(r, [req[r] EXCEPT !.hpc = "issued", !.id = seen + 1])
  /\ UNCHANGED <<conversation_histories, stt, clock, active_requests, response_cache, memory_cache, files,
                 queue, hung, janitor_wake>>

\* lines 56-60: get_request_id, called first by every handler; the
\* increment and the read of the counter are one step under request_lock
GetRequestId(r) ==
  /\ r = NextSlot /\ r \in Requests
  /\ Cardinality(InProgress) < MaxActive
  /\ request_counter' = request_counter + 1
  /\ Set(r, [req[r] EXCEPT !.hpc = "issued", !.id = request_counter + 1])
  /\ UNCHANGED <<conversation_histories, stt, clock, active_requests, response_cache, memory_cache, files,
                 queue, hung, janitor_wake>>

\* convert_text after get_request_id, for a non-streaming request: the
\* active-request record, the response_cache lookup and, on a miss,
\* executor.submit(text_to_speech, ...)
ConvertStart(r, i) ==
  /\ req[r].hpc = "issued"
  /\ LET k == cache_key(i)
         base == [req[r] EXCEPT !.kind = "tts", !.inp = i, !.start_time = clock]
     IN IF k \in DOMAIN response_cache /\ RespFresh(response_cache[k])
        THEN /\ Set(r, [base EXCEPT !.hpc = "done", !.status = 200,
                                    !.body = response_cache[k].data])
             /\ queue' = queue
        ELSE /\ Set(r, [base EXCEPT !.hpc = "waiting", !.pc = "queued"])
             /\ queue' = Append(queue, r)
  /\ active_requests' = active_requests \cup {r}
  /\ UNCHANGED <<conversation_histories, stt, clock, request_counter, response_cache, memory_cache, files,
                 hung, janitor_wake>>

\* future.result(timeout=15) returns the audio
ConvertResult(r) ==
  /\ req[r].kind = "tts" /\ req[r].hpc = "waiting" /\ req[r].pc = "done"
  /\ IF ByteLen(req[r].ret) < MIN_AUDIO_BYTES
     THEN /\ Set(r, [req[r] EXCEPT !.hpc = "done", !.status = 500, !.error = "invalid"])
          /\ UNCHANGED <<conversation_histories, response_cache, active_requests>>
     ELSE /\ response_cache' =
               (cache_key(req[r].inp) :> [data |-> req[r].ret, timestamp |-> clock])
                 @@ response_cache
          /\ active_requests' = active_requests \ {r}
          /\ Set(r, [req[r] EXCEPT !.hpc = "done", !.status = 200, !.body = req[r].ret])
  /\ UNCHANGED <<conversation_histories, stt, clock, request_counter, memory_cache, files, queue, hung, janitor_wake>>

\* future.result re-raises the task's exception: "TTS conversion failed"
ConvertRaise(r) ==
  /\ req[r].kind = "tts" /\ req[r].hpc = "waiting" /\ req[r].pc = "raised"
  /\ Set(r, [req[r] EXCEPT !.hpc = "done", !.status = 500, !.error = "raised"])
  /\ UNCHANGED <<conversation_histories, stt, clock, request_counter, active_requests, response_cache,
                 memory_cache, files, queue, hung, janitor_wake>>

\* a bounded wait that only starts once a worker has taken the task
ConvertTimeoutOnceAdmitted(r) ==
  /\ req[r].kind = "tts" /\ req[r].hpc = "waiting"
  /\ req[r].pc \notin {"queued", "done", "raised"}
  /\ Set(r, [req[r] EXCEPT !.hpc = "done", !.status = 500, !.error = "timeout"])
  /\ UNCHANGED <<conversation_histories, stt, clock, request_counter, active_requests, response_cache,
                 memory_cache, files, queue, hung, janitor_wake>>

\* future.result(timeout=15) raises TimeoutError while the task is queued or
\* running; the task itself is left alone
ConvertTimeout(r) ==
  /\ req[r].kind = "tts" /\ req[r].hpc = "waiting"
  /\ req[r].pc \notin {"done", "raised"}
  /\ Set(r, [req[r] EXCEPT !.hpc = "done", !.status = 500, !.error = "timeout"])
  /\ UNCHANGED <<conversation_histories, stt, clock, request_counter, active_requests, response_cache,
                 memory_cache, files, queue, hung, janitor_wake>>

\* entry of convert_text with streaming=True: text_to_speech runs in the
\* handler's own thread
StreamStart(r, i) ==
  /\ req[r].hpc = "issued"
  /\ active_requests' = active_requests \cup {r}
  /\ Set(r, [req[r] EXCEPT !.kind = "stream", !.inp = i, !.start_time = clock,
                            !.hpc = "calling", !.pc = "mem_check"])
  /\ UNCHANGED <<conversation_histories, stt, clock, request_counter, response_cache, memory_cache, files,
                 queue, hung, janitor_wake>>

\* ------------------------------------------------ tts.executor (16 workers)
\* an idle worker takes the oldest queued task
Admit(r) ==
  /\ queue # <<>> /\ Head(queue) = r
  /\ Busy < max_workers
  /\ queue' = Tail(queue)
  /\ Set(r, [req[r] EXCEPT !.pc = IF @ = "queued" THEN "mem_check" ELSE "save_run"])
  /\ UNCHANGED <<conversation_histories, stt, clock, request_counter, active_requests, response_cache,
                 memory_cache, files, hung, janitor_wake>>

\* n other requests are given idle workers and their provider calls never
\* return (no call to the provider carries a timeout)
HungCalls(n) ==
  /\ queue = <<>>
  /\ Busy + n <= max_workers
  /\ hung' = hung + n
  /\ UNCHANGED <<conversation_histories, stt, clock, request_counter, active_requests, response_cache,
                 memory_cache, files, queue, janitor_wake, req>>

\* ------------------------------------------------- tts.py: text_to_speech
\* time.time() - cached_entry['timestamp'] < MEMORY_CACHE_EXPIRY
MemFresh(e) == clock - e.timestamp < MEMORY_CACHE_EXPIRY

\* memory_cache[memory_cache_key]['timestamp'] = time.time()
Touch(e) == [e EXCEPT !.timestamp = clock]

\* {'audio_data': audio_data, 'timestamp': time.time()}; written records when
\* the entry was inserted and is never read by the program
NewEntry(k, data) ==
  [key |-> k, data |-> data, timestamp |-> clock, written |-> clock]

\* text_to_speech returns data: the value of the future for a non-streaming
\* call, a one-chunk generator (yield_cached, yield_cached_file) for a
\* streaming call
Return(rec, data) ==
  IF rec.kind = "tts"
  THEN [rec EXCEPT !.pc = "done", !.ret = data, !.data = NoBytes,
                   !.doneSeq = request_counter, !.doneClock = clock]
  ELSE [rec EXCEPT !.pc = "yield_cached", !.data = data, !.hpc = "streaming"]

\* the outer "except Exception: raise" of text_to_speech
Raise(rec) ==
  IF rec.kind = "tts"
  THEN [rec EXCEPT !.pc = "raised", !.data = NoBytes]
  ELSE [rec EXCEPT !.pc = "raised", !.data = NoBytes, !.hpc = "done", !.status = 500,
                   !.error = "raised"]

\* a lookup that has to wait for memory_cache_lock while another request
\* calls the provider or reads or writes a file
MemCheckBehindIO(r) ==
  /\ req[r].kind \in {"tts", "stream"} /\ req[r].pc = "mem_check"
  /\ \A q \in Requests \ {r} :
        req[q].pc \notin {"disk_read", "provider", "stream_open", "file_write", "save_write"}
  /\ LET k == memory_cache_key(req[r].inp)
     IN IF Has(memory_cache, k) /\ MemFresh(Get(memory_cache, k))
        THEN LET e == Get(memory_cache, k)
             IN /\ memory_cache' = Put(memory_cache, Touch(e))
                /\ Set(r, Return(req[r], e.data))
        ELSE /\ memory_cache' = memory_cache
             /\ Set(r, [req[r] EXCEPT !.pc = "disk_check"])
  /\ UNCHANGED <<conversation_histories, stt, clock, request_counter, active_requests, response_cache,
                 files, queue, hung, janitor_wake>>

\* lines 95-110: the memory-tier lookup under memory_cache_lock
MemCheck(r) ==
  /\ req[r].kind \in {"tts", "stream"} /\ req[r].pc = "mem_check"
  /\ LET k == memory_cache_key(req[r].inp)
     IN IF Has(memory_cache, k) /\ MemFresh(Get(memory_cache, k))
        THEN LET e == Get(memory_cache, k)
             IN /\ memory_cache' = Put(memory_cache, Touch(e))
                /\ Set(r, Return(req[r], e.data))
        ELSE /\ memory_cache' = memory_cache
             /\ Set(r, [req[r] EXCEPT !.pc = "disk_check"])
  /\ UNCHANGED <<conversation_histories, stt, clock, request_counter, active_requests, response_cache,
                 files, queue, hung, janitor_wake>>

\* line 113: os.path.exists(cache_path)
DiskCheck(r) ==
  /\ req[r].kind \in {"tts", "stream"} /\ req[r].pc = "disk_check"
  /\ Set(r, [req[r] EXCEPT !.pc =
        IF full_cache_key(req[r].inp) \in DOMAIN files THEN "disk_read"
        ELSE IF req[r].kind = "tts" THEN "provider" ELSE "stream_open"])
  /\ UNCHANGED <<conversation_histories, stt, clock, request_counter, active_requests, response_cache,
                 memory_cache, files, queue, hung, janitor_wake>>

\* lines 115-116: open(cache_path, "rb").read(); the open raises when the
\* file has been removed since the exists() test
DiskRead(r) ==
  /\ req[r].kind \in {"tts", "stream"} /\ req[r].pc = "disk_read"
  /\ LET k == full_cache_key(req[r].inp)
     IN IF k \in DOMAIN files
        THEN Set(r, [req[r] EXCEPT !.pc = "promote", !.data = files[k].data])
        ELSE Set(r, Raise([req[r] EXCEPT !.failure = "cache"]))
  /\ UNCHANGED <<conversation_histories, stt, clock, request_counter, active_requests, response_cache,
                 memory_cache, files, queue, hung, janitor_wake>>

\* lines 119-137: promotion of a disk hit into the memory tier
Promote(r) ==
  /\ req[r].kind \in {"tts", "stream"} /\ req[r].pc = "promote"
  /\ LET mc == Put(memory_cache, NewEntry(memory_cache_key(req[r].inp), req[r].data))
     IN memory_cache' = IF Size(mc) > MEMORY_CACHE_SIZE THEN EvictOldest(mc) ELSE mc
  /\ Set(r, Return(req[r], req[r].data))
  /\ UNCHANGED <<conversation_histories, stt, clock, request_counter, active_requests, response_cache,
                 files, queue, hung, janitor_wake>>

\* lines 191-225: client.tts.bytes answers; its chunks are joined and the
\* result validated.  outcome "error" is an exception of the provider call.
ProviderReturn(r, outcome) ==
  /\ req[r].kind = "tts" /\ req[r].pc = "provider"
  /\ IF outcome = "error"
     THEN Set(r, Raise([req[r] EXCEPT !.called = TRUE, !.failure = "provider"]))
     ELSE LET audio_data == Join(ProviderChunks(req[r].inp, outcome))
          IN IF ByteLen(audio_data) < MIN_AUDIO_BYTES
             THEN Set(r, Raise([req[r] EXCEPT !.called = TRUE, !.failure = "provider"]))
             ELSE Set(r, [req[r] EXCEPT !.called = TRUE, !.data = audio_data,
                                        !.pc = "file_open"])
  /\ UNCHANGED <<conversation_histories, stt, clock, request_counter, active_requests, response_cache,
                 memory_cache, files, queue, hung, janitor_wake>>

\* open(cache_path, "wb") creates the file or truncates it
Truncated(k) == (k :> [data |-> NoBytes, mtime |-> clock]) @@ files

\* the bytes of bs after its first n bytes
RECURSIVE DropBytes(_, _)
DropBytes(bs, n) ==
  IF n = 0 \/ bs = <<>> THEN bs
  ELSE IF Head(bs)[2] <= n THEN DropBytes(Tail(bs), n - Head(bs)[2])
  ELSE << <<Head(bs)[1], Head(bs)[2] - n, "tail">> >> \o Tail(bs)

\* f.write(audio_data) and the close: the handle of this open() writes from
\* offset 0 over whatever the file holds by now, which is more than nothing
\* when another handle has written since this one truncated; a file unlinked
\* since the open stays unlinked
Written(k, data) ==
  IF k \in DOMAIN files
  THEN (k :> [data |-> data \o DropBytes(files[k].data, ByteLen(data)),
              mtime |-> clock]) @@ files
  ELSE files

\* line 228
FileOpen(r) ==
  /\ req[r].kind = "tts" /\ req[r].pc = "file_open"
  /\ files' = Truncated(full_cache_key(req[r].inp))
  /\ Set(r, [req[r] EXCEPT !.pc = "file_write"])
  /\ UNCHANGED <<conversation_histories, stt, clock, request_counter, active_requests, response_cache,
                 memory_cache, queue, hung, janitor_wake>>

\* line 228: open(cache_path, "wb") raises OSError (no space left, no
\* permission, directory removed); nothing catches it before the outer except
FileOpenFails(r) ==
  /\ req[r].kind = "tts" /\ req[r].pc = "file_open"
  /\ Set(r, Raise([req[r] EXCEPT !.failure = "cache"]))
  /\ UNCHANGED <<conversation_histories, stt, clock, request_counter, active_requests, response_cache,
                 memory_cache, files, queue, hung, janitor_wake>>

\* line 229
FileWrite(r) ==
  /\ req[r].kind = "tts" /\ req[r].pc = "file_write"
  /\ files' = Written(full_cache_key(req[r].inp), req[r].data)
  /\ Set(r, [req[r] EXCEPT !.pc = "mem_put"])
  /\ UNCHANGED <<conversation_histories, stt, clock, request_counter, active_requests, response_cache,
                 memory_cache, queue, hung, janitor_wake>>

\* a task that skips the memory-tier write once its caller has stopped
\* waiting
MemPutUnlessAbandoned(r) ==
  /\ req[r].kind = "tts" /\ req[r].pc = "mem_put"
  /\ LET mc == Put(memory_cache, NewEntry(memory_cache_key(req[r].inp), req[r].data))
     IN memory_cache' = IF req[r].hpc = "done" THEN memory_cache
                        ELSE IF Size(mc) > MEMORY_CACHE_SIZE THEN EvictTenth(mc) ELSE mc
  /\ Set(r, Return(req[r], req[r].data))
  /\ UNCHANGED <<conversation_histories, stt, clock, request_counter, active_requests, response_cache,
                 files, queue, hung, janitor_wake>>

\* lines 232-249: insertion into the memory tier, then the cleanup
MemPut(r) ==
  /\ req[r].kind = "tts" /\ req[r].pc = "mem_put"
  /\ LET mc == Put(memory_cache, NewEntry(memory_cache_key(req[r].inp), req[r].data))
     IN memory_cache' = IF Size(mc) > MEMORY_CACHE_SIZE THEN EvictTenth(mc) ELSE mc
  /\ Set(r, Return(req[r], req[r].data))
  /\ UNCHANGED <<conversation_histories, stt, clock, request_counter, active_requests, response_cache,
                 files, queue, hung, janitor_wake>>

\* ------------------------------------- tts.py: the streaming tee (150-188)
\* lines 154-160, 188: client.tts.stream(...) and return buffered_stream();
\* outcome "error" is an exception of the call, otherwise the answer the
\* provider is going to stream
StreamOpen(r, outcome) ==
  /\ req[r].kind = "stream" /\ req[r].pc = "stream_open"
  /\ IF outcome = "error"
     THEN Set(r, Raise([req[r] EXCEPT !.called = TRUE, !.failure = "provider"]))
     ELSE Set(r, [req[r] EXCEPT !.called = TRUE, !.variant = outcome,
                                !.pc = "tee", !.hpc = "streaming", !.status = 200])
  /\ UNCHANGED <<conversation_histories, stt, clock, request_counter, active_requests, response_cache,
                 memory_cache, files, queue, hung, janitor_wake>>

\* a tee that hands the client the newest chunk first
StreamNextReordered(r) ==
  /\ req[r].pc = "tee"
  /\ req[r].pos < Len(ProviderChunks(req[r].inp, req[r].variant))
  /\ LET chunk == ProviderChunks(req[r].inp, req[r].variant)[req[r].pos + 1]
     IN Set(r, [req[r] EXCEPT !.pos = @ + 1,
                              !.chunks = Append(@, chunk),
                              !.delivered = <<chunk>> \o @])
  /\ UNCHANGED <<conversation_histories, stt, clock, request_counter, active_requests, response_cache,
                 memory_cache, files, queue, hung, janitor_wake>>

\* lines 166-168: the provider emits its next chunk, which is appended to
\* chunks and yielded to the client
StreamNext(r) ==
  /\ req[r].pc = "tee"
  /\ req[r].pos < Len(ProviderChunks(req[r].inp, req[r].variant))
  /\ LET chunk == ProviderChunks(req[r].inp, req[r].variant)[req[r].pos + 1]
     IN Set(r, [req[r] EXCEPT !.pos = @ + 1,
                              !.chunks = Append(@, chunk),
                              !.delivered = Append(@, chunk)])
  /\ UNCHANGED <<conversation_histories, stt, clock, request_counter, active_requests, response_cache,
                 memory_cache, files, queue, hung, janitor_wake>>

\* a tee that submits save_to_cache and keeps the client's sequence open
\* until the save is over
StreamExhaustWaits(r) ==
  /\ req[r].pc = "tee"
  /\ req[r].pos = Len(ProviderChunks(req[r].inp, req[r].variant))
  /\ queue' = Append(queue, r)
  /\ Set(r, [req[r] EXCEPT !.pc = "save_queued"])
  /\ UNCHANGED <<conversation_histories, stt, clock, request_counter, active_requests, response_cache,
                 memory_cache, files, hung, janitor_wake>>

\* lines 166, 186: the provider's stream ends, the for loop exits and
\* save_to_cache is submitted to the executor
StreamExhaust(r) ==
  /\ req[r].pc = "tee"
  /\ req[r].pos = Len(ProviderChunks(req[r].inp, req[r].variant))
  /\ queue' = Append(queue, r)
  /\ Set(r, [req[r] EXCEPT !.pc = "save_queued", !.hpc = "done"])
  /\ UNCHANGED <<conversation_histories, stt, clock, request_counter, active_requests, response_cache,
                 memory_cache, files, hung, janitor_wake>>

\* a tee that submits save_to_cache from a finally block, so that a failed
\* stream saves what it has
StreamFailSaves(r) ==
  /\ req[r].pc = "tee"
  /\ req[r].pos < Len(ProviderChunks(req[r].inp, req[r].variant))
  /\ queue' = Append(queue, r)
  /\ Set(r, [req[r] EXCEPT !.pc = "stream_failed", !.hpc = "done"])
  /\ UNCHANGED <<conversation_histories, stt, clock, request_counter, active_requests, response_cache,
                 memory_cache, files, hung, janitor_wake>>

\* line 166: the provider's stream raises before its end; the exception
\* leaves the generator
StreamFail(r) ==
  /\ req[r].pc = "tee"
  /\ req[r].pos < Len(ProviderChunks(req[r].inp, req[r].variant))
  /\ queue' = queue
  /\ Set(r, [req[r] EXCEPT !.pc = "stream_failed", !.hpc = "done", !.chunks = <<>>])
  /\ UNCHANGED <<conversation_histories, stt, clock, request_counter, active_requests, response_cache,
                 memory_cache, files, hung, janitor_wake>>

\* line 168: the client stops reading; the server closes the generator,
\* which ends at its yield (or before its first step)
ClientStop(r) ==
  /\ req[r].pc = "tee"
  /\ queue' = queue
  /\ Set(r, [req[r] EXCEPT !.pc = "stream_cancelled", !.hpc = "done", !.chunks = <<>>])
  /\ UNCHANGED <<conversation_histories, stt, clock, request_counter, active_requests, response_cache,
                 memory_cache, files, hung, janitor_wake>>

\* lines 106-108, 133-135: the generator of a cache hit yields the cached
\* bytes as a single chunk
CachedDeliver(r) ==
  /\ req[r].kind = "stream" /\ req[r].pc = "yield_cached"
  /\ Set(r, [req[r] EXCEPT !.pc = "done", !.hpc = "done", !.status = 200,
                           !.delivered = <<req[r].data>>, !.data = NoBytes])
  /\ UNCHANGED <<conversation_histories, stt, clock, request_counter, active_requests, response_cache,
                 memory_cache, files, queue, hung, janitor_wake>>

\* a save_to_cache that updates the memory tier before it opens the file
SaveRunMemoryFirst(r) ==
  /\ req[r].pc = "save_run"
  /\ LET audio_data == Join(req[r].chunks)
     IN IF audio_data # NoBytes /\ ByteLen(audio_data) >= MIN_AUDIO_BYTES
        THEN /\ memory_cache' =
                  Put(memory_cache, NewEntry(memory_cache_key(req[r].inp), audio_data))
             /\ files' = Truncated(full_cache_key(req[r].inp))
             /\ Set(r, [req[r] EXCEPT !.pc = "save_write", !.data = audio_data])
        ELSE /\ files' = files /\ memory_cache' = memory_cache
             /\ Set(r, [req[r] EXCEPT !.pc = "done", !.chunks = <<>>])
  /\ UNCHANGED <<conversation_histories, stt, clock, request_counter, active_requests, response_cache,
                 queue, hung, janitor_wake>>

\* a save_to_cache without the length test
SaveRunAnyLength(r) ==
  /\ req[r].pc = "save_run"
  /\ files' = Truncated(full_cache_key(req[r].inp))
  /\ Set(r, [req[r] EXCEPT !.pc = "save_write", !.data = Join(req[r].chunks)])
  /\ UNCHANGED <<conversation_histories, stt, clock, request_counter, active_requests, response_cache,
                 memory_cache, queue, hung, janitor_wake>>

\* lines 172-175: save_to_cache joins the chunks, tests the length and
\* opens the file
SaveRun(r) ==
  /\ req[r].pc = "save_run"
  /\ LET audio_data == Join(req[r].chunks)
     IN IF audio_data # NoBytes /\ ByteLen(audio_data) >= MIN_AUDIO_BYTES
        THEN /\ files' = Truncated(full_cache_key(req[r].inp))
             /\ Set(r, [req[r] EXCEPT !.pc = "save_write", !.data = audio_data])
        ELSE /\ files' = files
             /\ Set(r, [req[r] EXCEPT !.pc = "done", !.chunks = <<>>])
  /\ UNCHANGED <<conversation_histories, stt, clock, request_counter, active_requests, response_cache,
                 memory_cache, queue, hung, janitor_wake>>

\* line 176
SaveWrite(r) ==
  /\ req[r].pc = "save_write"
  /\ files' = Written(full_cache_key(req[r].inp), req[r].data)
  /\ Set(r, [req[r] EXCEPT !.pc = "save_mem"])
  /\ UNCHANGED <<conversation_histories, stt, clock, request_counter, active_requests, response_cache,
                 memory_cache, queue, hung, janitor_wake>>

\* lines 179-183: the memory tier is updated, with no cleanup
SaveMem(r) ==
  /\ req[r].pc = "save_mem"
  /\ memory_cache' = Put(memory_cache, NewEntry(memory_cache_key(req[r].inp), req[r].data))
  /\ Set(r, [req[r] EXCEPT !.pc = "done", !.chunks = <<>>, !.data = NoBytes])
  /\ UNCHANGED <<conversation_histories, stt, clock, request_counter, active_requests, response_cache,
                 files, queue, hung, janitor_wake>>

\* --------------------------------------------------- app.py: transcribe
HANDLER_MIN_AUDIO == 1000
NoSpeech == <<"no speech">>

\* stt.py, lines 66-71: the size tests of transcribe_audio and their texts
STT_MIN_AUDIO == 500
NoSpeechAudio == <<"no speech, try again with audio">>
TooShort == <<"too short">>

\* an entry of transcribe that rejects an empty upload and submits every
\* other one, whatever its size
TranscribeStartAnySize(r, i) ==
  /\ req[r].hpc = "issued"
  /\ active_requests' = active_requests \cup {r}
  /\ LET base == [req[r] EXCEPT !.kind = "stt", !.inp = i, !.start_time = clock]
     IN IF AudioInputs[i] = NoBytes
        THEN /\ Set(r, [base EXCEPT !.hpc = "done", !.status = 400, !.error = "invalid"])
             /\ queue' = queue
        ELSE /\ Set(r, [base EXCEPT !.hpc = "waiting", !.pc = "queued"])
             /\ queue' = Append(queue, r)
  /\ UNCHANGED <<conversation_histories, stt, clock, request_counter, response_cache, memory_cache, files,
                 hung, janitor_wake>>

\* transcribe after get_request_id: the active-request record, the test for
\* an empty upload, the size test and executor.submit(transcribe_audio,
\* buffer_data)
TranscribeStart(r, i) ==
  /\ req[r].hpc = "issued"
  /\ active_requests' = active_requests \cup {r}
  /\ LET base == [req[r] EXCEPT !.kind = "stt", !.inp = i, !.start_time = clock]
     IN IF AudioInputs[i] = NoBytes
        THEN /\ Set(r, [base EXCEPT !.hpc = "done", !.status = 400, !.error = "invalid"])
             /\ queue' = queue
        ELSE IF Len(AudioInputs[i]) < HANDLER_MIN_AUDIO
        THEN /\ Set(r, [base EXCEPT !.hpc = "done", !.status = 200, !.body = NoSpeech])
             /\ queue' = queue
        ELSE /\ Set(r, [base EXCEPT !.hpc = "waiting", !.pc = "queued"])
             /\ queue' = Append(queue, r)
  /\ UNCHANGED <<conversation_histories, stt, clock, request_counter, response_cache, memory_cache, files,
                 hung, janitor_wake>>

\* lines 196-211: future.result(timeout=20) returns the transcript
TranscribeResult(r) ==
  /\ req[r].kind = "stt" /\ req[r].hpc = "waiting" /\ req[r].pc = "done"
  /\ active_requests' = active_requests \ {r}
  /\ Set(r, [req[r] EXCEPT !.hpc = "done", !.status = 200,
                           !.body = IF \A n \in 1..Len(req[r].ret) : Blank(req[r].ret[n])
                                    THEN NoSpeech ELSE req[r].ret])
  /\ UNCHANGED <<conversation_histories, stt, clock, request_counter, response_cache, memory_cache, files,
                 queue, hung, janitor_wake>>

\* lines 213-218: future.result raises, either the task's exception or,
\* while the task is queued or running, TimeoutError
TranscribeFail(r) ==
  /\ req[r].kind = "stt" /\ req[r].hpc = "waiting" /\ req[r].pc # "done"
  /\ active_requests' = active_requests \ {r}
  /\ Set(r, [req[r] EXCEPT !.hpc = "done", !.status = 500,
                           !.error = IF req[r].pc = "raised" THEN "raised" ELSE "timeout"])
  /\ UNCHANGED <<conversation_histories, stt, clock, request_counter, response_cache, memory_cache, files,
                 queue, hung, janitor_wake>>

\* ------------------------------------------------ stt.py: transcribe_audio
SttReturn(rec, t) ==
  [rec EXCEPT !.pc = "done", !.ret = t, !.data = NoBytes,
              !.doneSeq = request_counter, !.doneClock = clock]

\* lines 185-187: every exception leaves as Exception("Transcription error")
SttRaise(rec) == [rec EXCEPT !.pc = "raised", !.data = NoBytes]

\* lines 66-71: the size tests; lines 80-87: the memory-tier lookup under
\* memory_cache_lock
SttMemCheck(r) ==
  /\ req[r].kind = "stt" /\ req[r].pc = "mem_check"
  /\ LET k == get_audio_fingerprint(req[r].inp)
         audio_data == AudioInputs[req[r].inp]
     IN IF audio_data = NoBytes
        THEN /\ stt_memory_cache' = stt_memory_cache
             /\ Set(r, SttReturn(req[r], NoSpeechAudio))
        ELSE IF Len(audio_data) < STT_MIN_AUDIO
        THEN /\ stt_memory_cache' = stt_memory_cache
             /\ Set(r, SttReturn(req[r], TooShort))
        ELSE IF Has(stt_memory_cache, k) /\ MemFresh(Get(stt_memory_cache, k))
        THEN LET e == Get(stt_memory_cache, k)
             IN /\ stt_memory_cache' = Put(stt_memory_cache, Touch(e))
                /\ Set(r, SttReturn(req[r], e.data))
        ELSE /\ stt_memory_cache' = stt_memory_cache
             /\ Set(r, [req[r] EXCEPT !.pc = "disk_check"])
  /\ UNCHANGED <<conversation_histories, env, app, memory_cache, files, stt_files, queue>>

\* line 91: os.path.exists(cache_path)
SttDiskCheck(r) ==
  /\ req[r].kind = "stt" /\ req[r].pc = "disk_check"
  /\ Set(r, [req[r] EXCEPT !.pc =
        IF audio_hash(req[r].inp) \in DOMAIN stt_files THEN "disk_read" ELSE "provider"])
  /\ UNCHANGED <<conversation_histories, env, app, memory_cache, files, stt, queue>>

\* lines 93-94: open(cache_path, "r").read()
SttDiskRead(r) ==
  /\ req[r].kind = "stt" /\ req[r].pc = "disk_read"
  /\ LET k == audio_hash(req[r].inp)
     IN IF k \in DOMAIN stt_files
        THEN Set(r, [req[r] EXCEPT !.pc = "promote", !.data = ReadText(stt_files[k].data)])
        ELSE Set(r, SttRaise([req[r] EXCEPT !.failure = "cache"]))
  /\ UNCHANGED <<conversation_histories, env, app, memory_cache, files, stt, queue>>

\* lines 97-109: promotion of a disk hit into the memory tier
SttPromote(r) ==
  /\ req[r].kind = "stt" /\ req[r].pc = "promote"
  /\ LET mc == Put(stt_memory_cache,
                   NewEntry(get_audio_fingerprint(req[r].inp), req[r].data))
     IN stt_memory_cache' = IF Size(mc) > STT_MEMORY_CACHE_SIZE THEN EvictOldest(mc) ELSE mc
  /\ Set(r, SttReturn(req[r], req[r].data))
  /\ UNCHANGED <<conversation_histories, env, app, memory_cache, files, stt_files, queue>>

\* lines 146-160: Deepgram answers (or the call raises, outcome "error")
SttProviderReturn(r, outcome) ==
  /\ req[r].kind = "stt" /\ req[r].pc = "provider"
  /\ IF outcome = "error"
     THEN Set(r, SttRaise([req[r] EXCEPT !.called = TRUE, !.failure = "provider"]))
     ELSE Set(r, [req[r] EXCEPT !.called = TRUE, !.pc = "file_open",
                                !.data = Extract(ProviderAnswer[req[r].inp])])
  /\ UNCHANGED <<conversation_histories, env, app, memory_cache, files, stt, queue>>

\* line 163: open(cache_path, "w")
SttFileOpen(r) ==
  /\ req[r].kind = "stt" /\ req[r].pc = "file_open"
  /\ stt_files' = (audio_hash(req[r].inp) :> [data |-> NoBytes, mtime |-> clock]) @@ stt_files
  /\ Set(r, [req[r] EXCEPT !.pc = "file_write"])
  /\ UNCHANGED <<conversation_histories, env, app, memory_cache, files, stt_memory_cache, queue>>

\* line 163: open(cache_path, "w") raises OSError
SttFileOpenFails(r) ==
  /\ req[r].kind = "stt" /\ req[r].pc = "file_open"
  /\ Set(r, SttRaise([req[r] EXCEPT !.failure = "cache"]))
  /\ UNCHANGED <<conversation_histories, env, app, memory_cache, files, stt, queue>>

\* line 164: f.write(transcript) and the close
SttFileWrite(r) ==
  /\ req[r].kind = "stt" /\ req[r].pc = "file_write"
  /\ LET k == audio_hash(req[r].inp)
     IN stt_files' = IF k \in DOMAIN stt_files
                     THEN (k :> [data |-> req[r].data, mtime |-> clock]) @@ stt_files
                     ELSE stt_files
  /\ Set(r, [req[r] EXCEPT !.pc = "mem_put"])
  /\ UNCHANGED <<conversation_histories, env, app, memory_cache, files, stt_memory_cache, queue>>

\* lines 167-183: insertion into the memory tier, then the cleanup
SttMemPut(r) ==
  /\ req[r].kind = "stt" /\ req[r].pc = "mem_put"
  /\ LET mc == Put(stt_memory_cache,
                   NewEntry(get_audio_fingerprint(req[r].inp), req[r].data))
     IN stt_memory_cache' = IF Size(mc) > STT_MEMORY_CACHE_SIZE THEN EvictTenth(mc) ELSE mc
  /\ Set(r, SttReturn(req[r], req[r].data))
  /\ UNCHANGED <<conversation_histories, env, app, memory_cache, files, stt_files, queue>>

\* ------------------------------- app.py: clean_cache_periodically (368-399)
Expired(e) == clock - e.timestamp > CACHE_EXPIRY
Stale(f) == f.mtime < clock - FILE_RETENTION

JanitorSweep ==
  /\ clock >= janitor_wake
  /\ response_cache' =
       [k \in {x \in DOMAIN response_cache : ~Expired(response_cache[x])} |-> response_cache[k]]
  /\ files' = [k \in {x \in DOMAIN files : ~Stale(files[x])} |-> files[k]]
  /\ stt_files' = [k \in {x \in DOMAIN stt_files : ~Stale(stt_files[x])} |-> stt_files[k]]
  /\ janitor_wake' = clock + JANITOR_SLEEP
  /\ UNCHANGED <<conversation_histories, clock, request_counter, active_requests, memory_cache,
                 stt_memory_cache, queue, hung, req>>

\* the files the sweep selects: tts_files and stt_files of lines 385-391
StaleFiles == {k \in DOMAIN files : Stale(files[k])}
StaleSttFiles == {k \in DOMAIN stt_files : Stale(stt_files[k])}
Without(fs, ks) == [k \in DOMAIN fs \ ks |-> fs[k]]

\* lines 393-399: os.remove raises on one of the selected files (it is
\* already gone, or it cannot be removed) and the exception leaves the for
\* loop for the handler of line 398.  The files listed before it, any part
\* of the others in os.listdir's order, are removed; tts_files come before
\* stt_files.  response_cache was cleaned before.
JanitorSweepFails ==
  /\ clock >= janitor_wake
  /\ response_cache' =
       [k \in {x \in DOMAIN response_cache : ~Expired(response_cache[x])} |-> response_cache[k]]
  /\ \E gone \in BOOLEAN :
       \/ \E f \in StaleFiles : \E before \in SUBSET (StaleFiles \ {f}) :
            /\ files' = Without(files, before \cup (IF gone THEN {f} ELSE {}))
            /\ stt_files' = stt_files
       \/ \E g \in StaleSttFiles : \E before \in SUBSET (StaleSttFiles \ {g}) :
            /\ files' = Without(files, StaleFiles)
            /\ stt_files' = Without(stt_files, before \cup (IF gone THEN {g} ELSE {}))
  /\ janitor_wake' = clock + JANITOR_SLEEP
  /\ UNCHANGED <<conversation_histories, clock, request_counter, active_requests, memory_cache,
                 stt_memory_cache, queue, hung, req>>

\* ------------------------------------------------------------------- time
\* the instants of ClockValues are far apart compared with the seconds a
\* request lasts: the clock moves on between requests
Advance(t) ==
  /\ InProgress = {}
  /\ t > clock
  /\ clock' = t
  /\ UNCHANGED <<conversation_histories, stt, request_counter, active_requests, response_cache, memory_cache,
                 files, queue, hung, janitor_wake, req>>

\* ------------------------------------------------ app.py: gemini_endpoint
\* prompts a client sends: 0 is the empty prompt
Prompts == {0, 1, 2}
\* f"gemini:{user_id}:{prompt[:100]}", a key no synthesis request uses
gemini_cache_key(p) == 100 + p

\* lines 223-252: the active-request record, the validation, the optional
\* reset of the history and the response_cache lookup
GeminiStart(r, p, reset) ==
  /\ req[r].hpc = "issued"
  /\ active_requests' = active_requests \cup {r}
  /\ LET base == [req[r] EXCEPT !.kind = "gemini", !.inp = p, !.start_time = clock,
                                !.variant = IF reset THEN "reset" ELSE "keep"]
         k == gemini_cache_key(p)
     IN IF p = 0
        THEN /\ Set(r, [base EXCEPT !.hpc = "done", !.status = 400, !.error = "invalid"])
             /\ conversation_histories' = conversation_histories
        ELSE /\ conversation_histories' = IF reset THEN <<>> ELSE conversation_histories
             /\ IF k \in DOMAIN response_cache /\ RespFresh(response_cache[k])
                THEN Set(r, [base EXCEPT !.hpc = "done", !.status = 200,
                                         !.body = response_cache[k].data])
                ELSE Set(r, [base EXCEPT !.hpc = "g_generate"])
  /\ UNCHANGED <<stt, clock, request_counter, response_cache, memory_cache, files,
                 queue, hung, janitor_wake>>

\* lines 270-291: the prompt is built from the history and
\* model.generate_content answers or raises (lines 315-326)
GeminiGenerate(r, outcome) ==
  /\ req[r].kind = "gemini" /\ req[r].hpc = "g_generate"
  /\ IF outcome = "error"
     THEN /\ Set(r, [req[r] EXCEPT !.called = TRUE, !.failure = "provider",
                                   !.hpc = "done", !.status = 500, !.error = "raised"])
          /\ active_requests' = active_requests \ {r}
     ELSE /\ Set(r, [req[r] EXCEPT !.called = TRUE, !.hpc = "g_append"])
          /\ active_requests' = active_requests
  /\ UNCHANGED <<stt, clock, request_counter, response_cache, memory_cache, files,
                 queue, hung, janitor_wake, conversation_histories>>

\* line 295: conversation_histories[user_id].append((prompt, result_text))
GeminiAppend(r) ==
  /\ req[r].kind = "gemini" /\ req[r].hpc = "g_append"
  /\ conversation_histories' = Append(conversation_histories, r)
  /\ Set(r, [req[r] EXCEPT !.hpc = "g_test"])
  /\ UNCHANGED <<stt, clock, request_counter, active_requests, response_cache,
                 memory_cache, files, queue, hung, janitor_wake>>

\* line 298: if len(conversation_histories[user_id]) > MAX_HISTORY_LENGTH
GeminiTrimTest(r) ==
  /\ req[r].kind = "gemini" /\ req[r].hpc = "g_test"
  /\ Set(r, [req[r] EXCEPT !.hpc =
        IF Len(conversation_histories) > MAX_HISTORY_LENGTH THEN "g_slice" ELSE "g_cache"])
  /\ UNCHANGED <<stt, clock, request_counter, active_requests, response_cache,
                 memory_cache, files, queue, hung, janitor_wake, conversation_histories>>

\* s[-MAX_HISTORY_LENGTH:]
LastExchanges(s) == SubSeq(s, Max(1, Len(s) - MAX_HISTORY_LENGTH + 1), Len(s))

\* line 299, right-hand side: the slice is a new list
GeminiTrimSlice(r) ==
  /\ req[r].kind = "gemini" /\ req[r].hpc = "g_slice"
  /\ Set(r, [req[r] EXCEPT !.hpc = "g_store", !.data = LastExchanges(conversation_histories)])
  /\ UNCHANGED <<stt, clock, request_counter, active_requests, response_cache,
                 memory_cache, files, queue, hung, janitor_wake, conversation_histories>>

\* line 299, the assignment: the slice replaces the list
GeminiTrimStore(r) ==
  /\ req[r].kind = "gemini" /\ req[r].hpc = "g_store"
  /\ conversation_histories' = req[r].data
  /\ Set(r, [req[r] EXCEPT !.hpc = "g_cache", !.data = NoBytes])
  /\ UNCHANGED <<stt, clock, request_counter, active_requests, response_cache,
                 memory_cache, files, queue, hung, janitor_wake>>

\* lines 302-313: the response_cache entry, the end of the active-request
\* record and the answer
GeminiCache(r) ==
  /\ req[r].kind = "gemini" /\ req[r].hpc = "g_cache"
  /\ response_cache' =
       (gemini_cache_key(req[r].inp) :> [data |-> <<r>>, timestamp |-> clock])
         @@ response_cache
  /\ active_requests' = active_requests \ {r}
  /\ Set(r, [req[r] EXCEPT !.hpc = "done", !.status = 200, !.body = <<r>>])
  /\ UNCHANGED <<stt, clock, request_counter, memory_cache, files, queue, hung,
                 janitor_wake, conversation_histories>>

GeminiStep(r) ==
  \/ \E o \in {"ok", "error"} : GeminiGenerate(r, o)
  \/ GeminiAppend(r)
  \/ GeminiTrimTest(r)
  \/ GeminiTrimSlice(r)
  \/ GeminiTrimStore(r)
  \/ GeminiCache(r)

\* ------------------------------------------------------- specifications
\* steps of text_to_speech, of the streaming tee and of the executor
TTSStep(r) ==
  \/ ConvertResult(r)
  \/ ConvertRaise(r)
  \/ ConvertTimeout(r)
  \/ Admit(r)
  \/ MemCheck(r)
  \/ DiskCheck(r)
  \/ DiskRead(r)
  \/ Promote(r)
  \/ \E o \in Variants \cup {"error"} : ProviderReturn(r, o)
  \/ FileOpen(r)
  \/ FileWrite(r)
  \/ MemPut(r)

TeeStep(r) ==
  \/ \E o \in Variants \cup {"error"} : StreamOpen(r, o)
  \/ StreamNext(r)
  \/ StreamExhaust(r)
  \/ StreamFail(r)
  \/ ClientStop(r)
  \/ CachedDeliver(r)
  \/ SaveRun(r)
  \/ SaveWrite(r)
  \/ SaveMem(r)

STTStep(r) ==
  \/ TranscribeResult(r)
  \/ TranscribeFail(r)
  \/ SttMemCheck(r)
  \/ SttDiskCheck(r)
  \/ SttDiskRead(r)
  \/ SttPromote(r)
  \/ \E o \in {"ok", "error"} : SttProviderReturn(r, o)
  \/ SttFileOpen(r)
  \/ SttFileWrite(r)
  \/ SttMemPut(r)

\* synthesis: concurrent streaming and non-streaming requests
Next ==
  \/ \E r \in Requests : GetRequestId(r)
  \/ \E r \in Requests, i \in TTSIn : ConvertStart(r, i)
  \/ \E r \in Requests, i \in TTSIn : StreamStart(r, i)
  \/ \E r \in Requests : TTSStep(r)
  \/ \E r \in Requests : TeeStep(r)

Spec == Init /\ [][Next]_vars

\* transcription: concurrent requests
NextSTT ==
  \/ \E r \in Requests : GetRequestId(r)
  \/ \E r \in Requests, i \in STTIn : TranscribeStart(r, i)
  \/ \E r \in Requests : Admit(r)
  \/ \E r \in Requests : STTStep(r)

SpecSTT == Init /\ [][NextSTT]_vars

\* the passing of time, the janitor and the failures of the file system,
\* with requests one after the other
NextTime ==
  \/ \E t \in ClockValues : Advance(t)
  \/ JanitorSweep
  \/ JanitorSweepFails
  \/ \E r \in Requests : FileOpenFails(r)
  \/ \E r \in Requests : SttFileOpenFails(r)
  \/ \E r \in Requests : InProgress = {} /\ GetRequestId(r)
  \/ \E r \in Requests : ConvertStart(r, 1)
  \/ \E r \in Requests : TranscribeStart(r, 1)
  \/ \E r \in Requests : TTSStep(r)
  \/ \E r \in Requests : STTStep(r)

SpecTime == Init /\ [][NextTime]_vars

\* provider calls that never return
NextExec ==
  \/ \E n \in HangBursts : HungCalls(n)
  \/ \E r \in Requests : GetRequestId(r)
  \/ \E r \in Requests : ConvertStart(r, 1)
  \/ \E r \in Requests : StreamStart(r, 1)
  \/ \E r \in Requests : TTSStep(r)
  \/ \E r \in Requests : TeeStep(r)

SpecExec == Init /\ [][NextExec]_vars

\* the three kinds of request side by side, each for its first input
NextAll ==
  \/ \E r \in Requests : GetRequestId(r)
  \/ \E r \in Requests : ConvertStart(r, 1)
  \/ \E r \in Requests : StreamStart(r, 1)
  \/ \E r \in Requests : TranscribeStart(r, 1)
  \/ \E r \in Requests : TTSStep(r)
  \/ \E r \in Requests : TeeStep(r)
  \/ \E r \in Requests : STTStep(r)

SpecAll == Init /\ [][NextAll]_vars

\* non-streaming requests for one text, with a provider whose answers for
\* that text differ
NextRace ==
  \/ \E r \in Requests : GetRequestId(r)
  \/ \E r \in Requests : ConvertStart(r, 1)
  \/ \E r \in Requests : TTSStep(r)
  \/ \E r \in Requests : ProviderReturn(r, "alt")

SpecRace == Init /\ [][NextRace]_vars

\* conversations with the language model
NextGemini ==
  \/ \E r \in Requests : GetRequestId(r)
  \/ \E r \in Requests, p \in Prompts, reset \in BOOLEAN : GeminiStart(r, p, reset)
  \/ \E r \in Requests : GeminiStep(r)

SpecGemini == Init /\ [][NextGemini]_vars

\* ------------------------------------------------------------- properties
Started(r) == req[r].kind # "none"
FullAudio(i) == Join(ProviderChunks(i, "full"))
StreamSource(r) == ProviderChunks(req[r].inp, req[r].variant)
InQueue(r) == \E n \in 1..Len(queue) : queue[n] = r

\* r2 was issued after text_to_speech / transcribe_audio returned for r1,
\* within the expiry window
IssuedAfter(r1, r2) ==
  /\ req[r1].pc = "done"
  /\ r2 > req[r1].doneSeq
  /\ req[r2].start_time - req[r1].doneClock < MEMORY_CACHE_EXPIRY

\* C1: a non-streaming text_to_speech call that follows, within the expiry
\* window, a completed call with the same (text, voice, speed) returns the
\* same bytes as that call and does not call the provider.
C1_RepeatIdentical ==
  \A r1, r2 \in Requests :
     ( /\ req[r1].kind = "tts" /\ req[r2].kind = "tts"
       /\ req[r1].inp = req[r2].inp
       /\ IssuedAfter(r1, r2)
       /\ req[r2].pc = "done" )
     => (req[r2].ret = req[r1].ret /\ ~req[r2].called)

\* C2: a transcribe_audio call that follows a completed call with the same
\* audio bytes returns the same transcript and does not call the provider.
C2_RepeatTranscript ==
  \A r1, r2 \in Requests :
     ( /\ req[r1].kind = "stt" /\ req[r2].kind = "stt"
       /\ req[r1].inp = req[r2].inp
       /\ req[r1].pc = "done" /\ r2 > req[r1].doneSeq
       /\ req[r2].pc = "done" )
     => (req[r2].ret = req[r1].ret /\ ~req[r2].called)

\* the step in which a memory-tier lookup of r serves an entry
MemServed(r) == req[r].pc = "mem_check" /\ req'[r].pc # "disk_check" /\ req'[r].pc # "mem_check"
\* the step in which r reads its disk-tier file
DiskServed(r) == req[r].pc = "disk_read" /\ req'[r].pc = "promote"
LookedUp(r) ==
  IF req[r].kind = "stt"
  THEN Get(stt_memory_cache, get_audio_fingerprint(req[r].inp))
  ELSE Get(memory_cache, memory_cache_key(req[r].inp))
FileOf(r) ==
  IF req[r].kind = "stt"
  THEN stt_files[audio_hash(req[r].inp)]
  ELSE files[full_cache_key(req[r].inp)]

\* C3: no lookup, in the memory tier or the disk tier, serves an
\* entry written more than the expiry window ago.
C3_NoStaleServed ==
  [][\A r \in Requests :
       /\ MemServed(r) => clock - LookedUp(r).written <= MEMORY_CACHE_EXPIRY
       /\ DiskServed(r) => clock - FileOf(r).mtime <= MEMORY_CACHE_EXPIRY]_vars

\* C4: between the locked blocks each memory tier holds at most its maximum
\* number of entries.
C4_MemoryBounded ==
  /\ Size(memory_cache) <= MEMORY_CACHE_SIZE
  /\ Size(stt_memory_cache) <= STT_MEMORY_CACHE_SIZE

\* the input whose provider answer a block belongs to
Owner(block) == block[1] % 10
Blocks(bs) == {bs[n] : n \in 1..Len(bs)}

\* C5: a synthesis request is only ever given audio computed for its own
\* text, as the value of text_to_speech, as the chunks streamed to the
\* client or as the response body.
C5_OwnAudioOnly ==
  \A r \in Requests :
     req[r].kind \in {"tts", "stream"} =>
       \A b \in Blocks(req[r].ret) \cup Blocks(req[r].body) \cup Blocks(Join(req[r].delivered)) :
          Owner(b) = req[r].inp

\* a stream that failed or that its client abandoned
Broken(r) == req[r].pc \in {"stream_failed", "stream_cancelled"}
SameMemKey(q, r) ==
  Started(q) /\ memory_cache_key(req[q].inp) = memory_cache_key(req[r].inp)

\* C6: a stream that fails partway or that the client abandons has delivered
\* every chunk the provider produced before that point, schedules no save,
\* and leaves no file and no memory-tier entry under its keys (as long as no
\* other request wrote them).
C6_BrokenStreamWritesNothing ==
  \A r \in Requests :
     Broken(r) =>
       /\ ~InQueue(r)
       /\ req[r].delivered = SubSeq(StreamSource(r), 1, req[r].pos)
       /\ (\A q \in Requests \ {r} : SameMemKey(q, r) => Broken(q)) =>
            /\ full_cache_key(req[r].inp) \notin DOMAIN files
            /\ ~Has(memory_cache, memory_cache_key(req[r].inp))

\* a stream failed after its first chunk, with no other request than broken
\* streams
C6_Witness ==
  \E r \in Requests :
     /\ req[r].pc = "stream_failed" /\ req[r].pos = 1
     /\ \A q \in Requests \ {r} : Started(q) => Broken(q)

\* the step in which save_to_cache of r decides on the length and the step
\* in which it has written its file
SaveDecided(r) == req[r].pc = "save_run" /\ req'[r].pc # "save_run"
SaveWrote(r) == req[r].pc = "save_write" /\ req'[r].pc = "save_mem"
Drained(r) == req[r].pc = "tee" /\ req'[r].pc \notin {"tee", "stream_failed", "stream_cancelled"}

C8_ClientSeesProviderOrder ==
  \A r \in Requests :
     req[r].variant # "none" =>
       /\ req[r].pos <= Len(StreamSource(r))
       /\ req[r].delivered = SubSeq(StreamSource(r), 1, req[r].pos)

\* a client has received both chunks of a stream
C8_Witness ==
  \E r \in Requests : req[r].variant = "full" /\ Len(req[r].delivered) = 2

TimedOut(r) == req[r].kind = "tts" /\ req[r].error = "timeout"

\* C9: a non-streaming request whose handler stops waiting before the task
\* returns is answered with a failure; when the provider call then succeeds
\* the task has written the file and the memory-tier entry, and an identical
\* request issued afterwards, within the expiry window, never reaches the
\* provider.
C9_LateResultIsCached ==
  \A r \in Requests :
     /\ ( /\ req[r].kind = "tts" /\ req[r].hpc = "done"
          /\ req[r].pc \in TaskPCs \cup {"queued", "raised"} )
        => req[r].status = 500
     /\ ( TimedOut(r) /\ req[r].pc = "done" /\ req[r].called ) =>
          /\ req[r].ret = FullAudio(req[r].inp)
          /\ full_cache_key(req[r].inp) \in DOMAIN files
          /\ Has(memory_cache, memory_cache_key(req[r].inp))
          /\ \A q \in Requests :
               ( /\ req[q].kind = "tts" /\ req[q].inp = req[r].inp
                 /\ IssuedAfter(r, q) )
               => ( /\ ~req[q].called
                    /\ req[q].pc \in {"none", "queued", "mem_check", "disk_check",
                                      "disk_read", "promote", "done"} )

\* after a timed-out request whose task went on to call the provider and
\* return, an identical request has been answered from the cache
C9_Witness ==
  \E r, q \in Requests :
     /\ TimedOut(r) /\ req[r].pc = "done" /\ req[r].called
     /\ req[q].kind = "tts" /\ req[q].inp = req[r].inp
     /\ IssuedAfter(r, q)
     /\ req[q].pc = "done" /\ req[q].status = 200

\* the executor under the scheduling the thread pool gives: a step that can
\* be taken is eventually taken
FairSpecExec == SpecExec /\ WF_vars(NextExec)

\* C10 (as claimed): every task submitted to the executor is eventually given
\* a worker, however many provider calls never return.
C10_QueuedEventuallyRuns == \A r \in Requests : InQueue(r) ~> ~InQueue(r)

\* provider calls in progress: the calls that never return, the
\* client.tts.bytes and transcribe_file calls of executor tasks, and the
\* client.tts.stream calls that streaming requests make and consume in
\* their handler threads
ProviderCalls ==
  hung
  + Cardinality({r \in Requests : req[r].kind \in {"tts", "stt"} /\ req[r].pc = "provider"})
  + Cardinality({r \in Requests : req[r].kind = "stream" /\ req[r].pc \in {"stream_open", "tee"}})

\* C11: the provider calls in progress, of the non-streaming, streaming and
\* transcription paths together, never outnumber the workers of the executor.
C11_ProviderCallsBounded == ProviderCalls <= max_workers

\* a transcription request whose upload is shorter than the size test of
\* transcribe_audio
ShortAudio(r) == req[r].kind = "stt" /\ Len(AudioInputs[req[r].inp]) < STT_MIN_AUDIO
Answered(r) == req[r].hpc = "done"

\* C12 (as claimed): every transcription request with fewer than 500 bytes of
\* audio is answered with the sentinel text and no error, calls no provider
\* and changes neither cache tier.
C12_ShortAudioSentinel ==
  [][\A r \in Requests :
       (ShortAudio(r)' /\ Answered(r)') =>
         /\ req'[r].status = 200 /\ req'[r].body = NoSpeech /\ req'[r].error = ""
         /\ ~req'[r].called
         /\ (req'[r] # req[r] => UNCHANGED <<stt_memory_cache, stt_files>>)]_vars

\* C12 (amended): a transcription request with at least one byte and fewer
\* than 500 bytes of audio is answered with the sentinel text and no error,
\* calls no provider and changes neither cache tier; an empty upload is
\* rejected with status 400, also without a provider call or a cache change.
C12_ShortAudioSentinelOrRejected ==
  [][\A r \in Requests :
       (ShortAudio(r)' /\ Answered(r)') =>
         /\ IF AudioInputs[req'[r].inp] = NoBytes
            THEN req'[r].status = 400 /\ req'[r].error = "invalid" /\ req'[r].body = NoBytes
            ELSE req'[r].status = 200 /\ req'[r].body = NoSpeech /\ req'[r].error = ""
         /\ ~req'[r].called
         /\ (req'[r] # req[r] => UNCHANGED <<stt_memory_cache, stt_files>>)]_vars

\* a 400-byte upload has been answered while the caches hold entries written
\* by another request
C12_Witness ==
  \E r \in Requests :
     /\ ShortAudio(r) /\ AudioInputs[req[r].inp] # NoBytes /\ Answered(r)
     /\ req[r].body = NoSpeech
     /\ stt_memory_cache.entries # <<>> /\ DOMAIN stt_files # {}

\* C13: once its request is over no record is left in active_requests, so
\* the map is empty whenever no request is in progress.
C13_NoRecordOutlives ==
  \A r \in Requests : (Started(r) /\ Finished(r)) => r \notin active_requests

\* text_to_speech or transcribe_audio left r with an exception
TaskFailed(r) == req[r].kind \in {"tts", "stt"} /\ req[r].pc = "raised"

\* C14: a request fails only when its provider call failed; an exception of
\* the disk tier, on the read of a cached file or on the write of a new one,
\* does not fail it.
C14_OnlyProviderFailureFails ==
  \A r \in Requests : TaskFailed(r) => req[r].failure = "provider"

\* r has read the cache file of its key and holds what it read
HasReadFile(r) == req[r].kind \in {"tts", "stream"} /\ req[r].pc = "promote"

\* C15: a lookup that finds the disk-tier file of its key reads the complete
\* payload that was written for the key, never a part of it.
C15_ReadsCompleteFile ==
  \A r \in Requests : HasReadFile(r) => req[r].data = FullAudio(req[r].inp)

\* C16: a hit does not prolong an entry: the memory tier serves an entry only
\* while less than the expiry window has passed since it was written,
\* however often it was hit in between.
C16_HitKeepsExpiryAge ==
  [][\A r \in Requests :
       MemServed(r) => clock - LookedUp(r).written < MEMORY_CACHE_EXPIRY]_vars

\* save_to_cache of stream r is submitted, or running on a worker
SavePending(r) == req[r].kind = "stream" /\ req[r].pc \in {"save_queued"} \cup SavePCs

\* C17: the save of a stream is in the executor only once every chunk of the
\* provider has been handed to the client, and from then on the client's
\* sequence is over: it does not stay open while the save is queued or
\* running.
C17_SaveAfterLastChunk ==
  \A r \in Requests :
     /\ (req[r].kind = "stream" /\ InQueue(r)) => req[r].pc = "save_queued"
     /\ SavePending(r) =>
          /\ req[r].delivered = StreamSource(r)
          /\ req[r].pos = Len(StreamSource(r))
          /\ req[r].hpc = "done"

\* the client has both chunks and the end of its sequence while the save
\* still waits in the queue
C17_Witness ==
  \E r \in Requests :
     /\ req[r].kind = "stream" /\ req[r].pc = "save_queued" /\ InQueue(r)
     /\ Len(req[r].delivered) = 2
     /\ req[r].hpc = "done"

\* a step of the janitor: its sweep is over and it sleeps again
SweepStep == janitor_wake' # janitor_wake

\* C18: a sweep in which one removal fails still removes every other file it
\* selected: at most the file whose removal failed is left.
C18_SweepSurvivesFailure ==
  [][SweepStep =>
       Cardinality({k \in StaleFiles : k \in DOMAIN files'})
         + Cardinality({k \in StaleSttFiles : k \in DOMAIN stt_files'}) <= 1]_vars

\* a sweep that ran to its end: no selected file is left
SweepCompleted == SweepStep /\ StaleFiles' = {} /\ StaleSttFiles' = {}
OldEntries(mc) ==
  {n \in 1..Len(mc.entries) : clock - mc.entries[n].written > MEMORY_CACHE_EXPIRY}

\* C19: when a sweep has completed, neither memory cache holds an entry
\* written more than the expiry window before it.
C19_SweepClearsMemoryTier ==
  [][SweepCompleted =>
       OldEntries(memory_cache)' = {} /\ OldEntries(stt_memory_cache)' = {}]_vars

\* the step in which r writes its entry into tts.memory_cache (promotion of a
\* disk hit, non-streaming put, streaming save), and the cache with that
\* entry before any removal
MemoryWrite(r) ==
  /\ req[r].kind \in {"tts", "stream"}
  /\ req[r].pc \in {"promote", "mem_put", "save_mem"}
  /\ req'[r].pc # req[r].pc
WithEntry(r) == Put(memory_cache, NewEntry(memory_cache_key(req[r].inp), req[r].data))

\* mc without its entry of oldest creation time (the unnamed entries were
\* created first)
WithoutOldestCreated(mc) ==
  IF mc.anon > 0 THEN [mc EXCEPT !.anon = @ - 1]
  ELSE LET first == CHOOSE n \in 1..Len(mc.entries) :
                      \A m \in 1..Len(mc.entries) :
                         \/ mc.entries[n].written < mc.entries[m].written
                         \/ mc.entries[n].written = mc.entries[m].written /\ n <= m
       IN [mc EXCEPT !.entries = Keep(@, {first}, 1)]

\* C20: a write that takes the memory tier over its bound removes the entry
\* created first, and no other entry.
C20_EvictsOldestCreatedOnly ==
  [][\A r \in Requests :
       (MemoryWrite(r) /\ Size(WithEntry(r)) > MEMORY_CACHE_SIZE)
         => memory_cache' = WithoutOldestCreated(WithEntry(r))]_vars

\* the step in which r completes the write of its cache file, and a step of
\* r, other than a lookup or a promotion, that changes a memory cache
FileWritten(r) ==
  /\ req[r].pc \in {"file_write", "save_write"}
  /\ req'[r].pc # req[r].pc
MemInsert(r) ==
  /\ req'[r] # req[r]
  /\ req[r].pc \notin {"mem_check", "promote"}
  /\ <<memory_cache, stt_memory_cache>>' # <<memory_cache, stt_memory_cache>>

\* C21: a request that caches a provider result (non-streaming synthesis,
\* streaming save, transcription) writes its file completely, with its
\* payload, and only then inserts that same payload into the memory tier.
C21_DiskBeforeMemory ==
  [][\A r \in Requests :
       /\ FileWritten(r) =>
            /\ FileOf(r)'.data = req[r].data
            /\ req'[r].data = req[r].data
            /\ req'[r].pc \in {"mem_put", "save_mem"}
       /\ (req'[r].pc \in {"mem_put", "save_mem"} /\ req'[r].pc # req[r].pc)
            => FileWritten(r)
       /\ MemInsert(r) =>
            /\ req[r].pc \in {"mem_put", "save_mem"}
            /\ req[r].data # NoBytes
            /\ LookedUp(r)'.data = req[r].data]_vars

\* a streaming save is over: the file and the memory entry hold the audio
\* the client received
C21_Witness ==
  \E r \in Requests :
     /\ req[r].kind = "stream" /\ req[r].pc = "done" /\ req[r].variant = "full"
     /\ Has(memory_cache, memory_cache_key(req[r].inp))
     /\ LookedUp(r).data = Join(req[r].delivered)
     /\ FileOf(r).data = Join(req[r].delivered)

\* r1 and r2 are two non-streaming requests for the same input that both
\* missed, both called the provider and both returned
BothComputed(r1, r2) ==
  /\ r1 # r2
  /\ req[r1].kind = "tts" /\ req[r2].kind = "tts"
  /\ req[r1].inp = req[r2].inp
  /\ req[r1].called /\ req[r2].called
  /\ req[r1].pc = "done" /\ req[r2].pc = "done"

\* C22: once two identical requests that both called the provider have
\* finished and nothing else is in progress, the file of their key and the
\* memory entry of their key hold one and the same payload, complete, that
\* one of the two computed.
C22_RaceLeavesOnePayload ==
  \A r1, r2 \in Requests :
     (BothComputed(r1, r2) /\ InProgress = {})
     => /\ Has(memory_cache, memory_cache_key(req[r1].inp))
        /\ FileOf(r1).data \in {req[r1].ret, req[r2].ret}
        /\ LookedUp(r1).data = FileOf(r1).data

\* positions at which a task is about to run a "with memory_cache_lock"
\* block, and positions at which it is about to call the provider or to
\* touch a file
LockPCs == {"mem_check", "promote", "mem_put", "save_mem"}
IOPCs == {"disk_check", "disk_read", "provider", "stream_open", "tee",
          "file_open", "file_write", "save_run", "save_write"}
LockStep(r) ==
  \/ MemCheck(r) \/ Promote(r) \/ MemPut(r) \/ SaveMem(r)
  \/ SttMemCheck(r) \/ SttPromote(r) \/ SttMemPut(r)

\* C23: a step made under the memory-tier lock touches no file and calls no
\* provider, a provider or file step touches no memory tier, and a task
\* that is about to take the lock can do so wherever the other tasks are.
C23_LockFreeOfIO ==
  [][\A r \in Requests :
       /\ (req[r].pc \in LockPCs /\ req'[r].pc # req[r].pc)
            => /\ files' = files /\ stt_files' = stt_files
               /\ req'[r].called = req[r].called
       /\ (req[r].pc \in IOPCs /\ req'[r].pc # req[r].pc)
            => /\ memory_cache' = memory_cache
               /\ stt_memory_cache' = stt_memory_cache
       /\ req[r].pc \in LockPCs => ENABLED LockStep(r)]_vars

\* a lookup is due while another request, for another text, is in its
\* provider call or between the open and the write of its file
C23_Witness ==
  \E r, q \in Requests :
     /\ req[r].pc = "mem_check" /\ req[r].kind \in {"tts", "stream"}
     /\ req[q].pc \in {"provider", "file_write"}
     /\ req[q].inp # req[r].inp

\* C24: every step that changes a memory-tier map is a "with
\* memory_cache_lock" block, and every step that changes the active-request
\* map is a "with request_lock" block, the only lock app.py has.
C24_MapsUnderLock ==
  [][/\ (memory_cache' # memory_cache \/ stt_memory_cache' # stt_memory_cache)
          => \E r \in Requests : LockStep(r)
     /\ active_requests' # active_requests
          => \E r \in Requests : GetRequestId(r)]_vars

\* C25: a non-streaming handler that waits for its task is eventually
\* answered, also when every worker is held by a call that never returns.
C25_CallerEventuallyAnswered ==
  \A r \in Requests : (req[r].hpc = "waiting") ~> (req[r].hpc = "done")

\* a caller has been answered with the timeout failure while its task was
\* still in the queue, every worker being held by a call that never returns
C25_Witness ==
  \E r \in Requests :
     /\ hung = max_workers /\ InQueue(r) /\ req[r].pc = "queued"
     /\ req[r].hpc = "done" /\ req[r].error = "timeout" /\ req[r].status = 500

\* the recordings long enough for get_audio_fingerprint to sample them, and
\* the transcript of recording i as transcribe_audio can hand it out
Sampled == {i \in STTIn : Len(AudioInputs[i]) > SAMPLING_THRESHOLD}
TranscriptsOf(i) ==
  {Extract(ProviderAnswer[i]), ReadText(Extract(ProviderAnswer[i]))}

\* C26: a transcription request for a sampled recording is never answered
\* with the transcript of another sampled recording.
C26_OwnTranscriptOnly ==
  \A r \in Requests :
     (req[r].kind = "stt" /\ req[r].pc = "done" /\ req[r].inp \in Sampled)
     => \A j \in Sampled \ {req[r].inp} : req[r].ret \notin TranscriptsOf(j)

\* C27: as long as no request has asked for a reset, the history of the
\* client only changes by the append of an exchange or by the removal of
\* its oldest exchanges down to the MAX_HISTORY_LENGTH most recent; and once
\* no request is in progress it holds at most MAX_HISTORY_LENGTH exchanges.
C27_HistoryBoundedNoneLost ==
  [][(\A r \in Requests : req'[r].variant # "reset") =>
       /\ \/ conversation_histories' = conversation_histories
          \/ \E r \in Requests : conversation_histories' = Append(conversation_histories, r)
          \/ conversation_histories' = LastExchanges(conversation_histories)
       /\ InProgress' = {} => Len(conversation_histories') <= MAX_HISTORY_LENGTH]_vars

\* the cache file of key k is between the open and the write of a request
BeingWritten(k) ==
  \E r \in Requests :
     /\ req[r].kind \in {"tts", "stream"}
     /\ req[r].pc \in {"file_write", "save_write"}
     /\ full_cache_key(req[r].inp) = k

\* C28: every payload held by the synthesis memory tier, and every cache
\* file that no request is in the middle of writing, is at least
\* MIN_AUDIO_BYTES long.
C28_NoShortPayloadStored ==
  /\ \A n \in 1..Len(memory_cache.entries) :
        ByteLen(memory_cache.entries[n].data) >= MIN_AUDIO_BYTES
  /\ \A k \in DOMAIN files :
        ~BeingWritten(k) => ByteLen(files[k].data) >= MIN_AUDIO_BYTES

\* the requests that have been given an identifier
Issued == {r \in Requests : req[r].hpc # "idle"}

\* C29: no two requests are given the same identifier, and request_counter
\* is the number of identifiers given out.
C29_UniqueRequestIds ==
  /\ \A r1, r2 \in Issued : r1 # r2 => req[r1].id # req[r2].id
  /\ request_counter = Cardinality(Issued)

\* two handlers have called get_request_id before either went on
C29_Witness ==
  \E r1, r2 \in Requests :
     /\ r1 # r2 /\ req[r1].hpc = "issued" /\ req[r2].hpc = "issued"
     /\ req[r1].id = 1 /\ req[r2].id = 2
====
